---------------------------- MODULE Spec2Model ----------------------------
(***************************************************************************)
(* Model of the document-pair scoring engine of docaligner/scorer.py and   *)
(* of the candidate pairing of baseline/candidates2corpus.py.              *)
(*                                                                         *)
(*   Spec      DistanceScorer: construction, _extract, term weighting and  *)
(*             the sequential and the pooled branch of score().            *)
(*   SpecGC    GaleChurchWrapper.align_score, one DP cell per step.        *)
(*   SpecGCOnce  the same steps for a single call with a longer source.    *)
(*   SpecDict  DictionaryScorer: read_dictionary, _extract,                *)
(*             _extend_dictionary and _score_pair.                         *)
(*   SpecAccum DictionaryScorer and GaleChurchAlignmentDistance, whose     *)
(*             _extract appends to lists that are never reset.             *)
(*   SpecVec   DocumentVectorExtractor: construction and extract.          *)
(*   SpecCand  candidates2corpus: the loop over the lines of stdin.        *)
(*   SpecNER   NERDistance: _extract and _extract_entities, one line of a  *)
(*             source page per step.                                       *)
(*                                                                         *)
(* Python indices are 0-based; sequences here are 1-based, so that the     *)
(* code's seq[k] is written seq[k + 1].  Real numbers are kept in fixed    *)
(* point: term weights in thousandths, Gale-Church costs in tenths.        *)
(***************************************************************************)
EXTENDS Integers, Sequences, FiniteSets, TLC

VARIABLES
    \* ---- DistanceScorer (Spec) ----
    pc,              \* position of the main thread
    set_based,       \* self._set_based
    count_based,     \* self._count_based
    source_corpus,   \* argument of the running score() call
    target_corpus,   \* argument of the running score() call
    weighting,       \* argument of the running score() call
    pool,            \* argument of the running score() call: 0 is None, else pool size
    sseqs,           \* self.sseqs
    tseqs,           \* self.tseqs
    weights,         \* self.weights
    scoring_matrix,  \* local of score()
    writes,          \* history: how often each cell was assigned
    s_idx,           \* loop variable of score()
    t_idx,           \* loop variable of score()
    chunks,          \* pool: state of each dispatched chunk of rows
    results,         \* pool: rows computed by finished chunks
    finished,        \* pool: row numbers in the order their results arrived
    handed,          \* history: weight tables passed to ratio_function in this call
    extracted,       \* history: number of applications of the extraction function
    \* ---- GaleChurchWrapper (SpecGC) ----
    gpc,             \* position inside align_score
    source_sents,    \* argument
    target_sents,    \* argument
    max_dist,        \* argument
    D,               \* the rolling table
    gi,              \* loop variable i
    gj,              \* loop variable j
    ret,             \* returned value
    full,            \* history: every cell value appended so far, by (i, j)
    prev,            \* history: (final cost, returned score) of the previous call
    \* ---- DictionaryScorer (SpecDict) ----
    dpc,             \* position in the life of the scorer
    dictfile,        \* the lexicon file: header and entry lines
    lang1,           \* requested language pair
    lang2,
    dictionary,      \* self.dictionary
    loaded,          \* history: the dictionary as read_dictionary left it
    sdocs,           \* self.sdocs
    tdocs,           \* self.tdocs
    s_words,         \* self.s_words
    t_words,         \* self.t_words
    pair_score,      \* last value returned by _score_pair, with its arguments
    d_seen,          \* history: the lists before the last _extract call, and its arguments
    \* ---- NERDistance (SpecNER) ----
    npc,             \* position inside _extract
    n_corpus,        \* argument source_corpus of the running _extract call
    n_doc,           \* loop variable idx of _extract
    n_line,          \* position of the loop of _extract_entities in text
    entities,        \* local of _extract_entities
    s_entities,      \* self.s_entities
    n_base,          \* history: len(self.s_entities) when the call began
    n_log,           \* history: the service's answers, per page of this call
    \* ---- DocumentVectorExtractor (SpecVec) ----
    vpc,             \* position in the life of the extractor
    idf,             \* argument of the constructor: the frequency table
    min_count,       \* argument of the constructor
    min_term_count,  \* self.min_term_count
    tables,          \* self.term2idf, self.term2idx, self.ignored_terms
    v_corpus,        \* argument of extract
    \* ---- GaleChurchAlignmentDistance (SpecAccum) ----
    bpc,             \* position in the life of the scorer
    sblocks,         \* self.sblocks
    tblocks,         \* self.tblocks
    b_seen,          \* history: the lists before the last _extract call, and its arguments
    \* ---- candidates2corpus (SpecCand) ----
    cpc,             \* position in the loop over stdin
    linenr,          \* number of lines read
    candidates,      \* the buffer: (url, text, html) per line
    outfile,         \* the records written
    c_input,         \* history: (url, html) of the lines read
    c_roles          \* history: the text processor each line went through

scoreVars == <<pc, set_based, count_based, source_corpus, target_corpus, weighting,
               pool, sseqs, tseqs, weights, scoring_matrix, writes, s_idx, t_idx,
               chunks, results, finished, handed, extracted>>
gcVars == <<gpc, source_sents, target_sents, max_dist, D, gi, gj, ret, full, prev>>
dictVars == <<dpc, dictfile, lang1, lang2, dictionary, loaded, sdocs, tdocs,
              s_words, t_words, pair_score, d_seen>>
nerVars == <<npc, n_corpus, n_doc, n_line, entities, s_entities, n_base, n_log>>
vecVars == <<vpc, idf, min_count, min_term_count, tables, v_corpus>>
blockVars == <<bpc, sblocks, tblocks, b_seen>>
candVars == <<cpc, linenr, candidates, outfile, c_input, c_roles>>
auxVars == <<nerVars, vecVars, blockVars, candVars>>
vars == <<scoreVars, gcVars, dictVars, auxVars>>

---------------------------------------------------------------------------
(* Bounds of the model *)

\* pages of both corpora of one score() call together
MaxDocs == 3
\* pages extracted by one scorer instance over all its score() calls
MaxExtracted == 4
MaxWords == 2
MaxPool == 2
\* chunksize=50 in the source; scaled down so that a corpus of MaxDocs rows
\* is dispatched as more than one chunk
ChunkSize == 1

Words == {"a"}

---------------------------------------------------------------------------
(* Generic helpers *)

Range(s) == {s[k] : k \in 1..Len(s)}

SeqsUpTo(S, n) == UNION {[1..k -> S] : k \in 0..n}

RECURSIVE SumOver(_, _)
SumOver(S, f) ==
    IF S = {} THEN 0
    ELSE LET x == CHOOSE y \in S : TRUE IN f[x] + SumOver(S \ {x}, f)

EmptyFun == [x \in {} |-> 0]

\* no _extract call so far
NoCall == [sdocs |-> <<>>, tdocs |-> <<>>, sc |-> <<>>, tc |-> <<>>]

\* no lexicon file at hand
NoFile == [header |-> <<>>, lines |-> <<>>]

---------------------------------------------------------------------------
(* Pages and extraction *)

\* a page is the whitespace-split list of its words (page.text.split())
Pages == SeqsUpTo(Words, MaxWords)

Corpora == SeqsUpTo(Pages, MaxDocs)

\* the (source, target) arguments of one call
CorpusPairs == {cp \in Corpora \X Corpora : Len(cp[1]) + Len(cp[2]) <= MaxDocs}

\* ngrams_from_text(1, False, page): a page without words yields the single
\* degenerate n-gram "" (range(max(len(words) - n + 1, 1)))
ngrams_from_text(page) ==
    [k \in 1..(IF Len(page) >= 1 THEN Len(page) ELSE 1) |->
        IF k <= Len(page) THEN page[k] ELSE ""]

\* ExtractionMapper.extract: map(self.ef, corpus)
extract(corpus) == [k \in 1..Len(corpus) |-> ngrams_from_text(corpus[k])]

\* Representations are tagged: a list, a set or a Counter (term -> count)
AsList(seq) == [kind |-> "list", items |-> seq]

\* set(seq)
AsSet(seq) == [kind |-> "set", items |-> Range(seq)]

\* Counter(seq)
AsCounter(seq) ==
    [kind |-> "counter",
     items |-> [t \in Range(seq) |-> Cardinality({k \in 1..Len(seq) : seq[k] = t})]]

\* Python's set(x) of a representation: elements of a list or set, keys of a Counter
PySet(rep) ==
    CASE rep.kind = "list" -> Range(rep.items)
      [] rep.kind = "set" -> rep.items
      [] OTHER -> DOMAIN rep.items

\* number of occurrences of t when iterating over / updating a Counter with rep
Occurrences(rep, t) ==
    CASE rep.kind = "list" -> Cardinality({k \in 1..Len(rep.items) : rep.items[k] = t})
      [] rep.kind = "set" -> IF t \in rep.items THEN 1 ELSE 0
      [] OTHER -> IF t \in DOMAIN rep.items THEN rep.items[t] ELSE 0

\* lines 237-242 of _extract: coercion of the extracted sequences
Coerce(seqs, sb, cb) ==
    [k \in 1..Len(seqs) |->
        IF sb THEN AsSet(seqs[k])
        ELSE IF cb THEN AsCounter(seqs[k])
        ELSE AsList(seqs[k])]

---------------------------------------------------------------------------
(* Term weighting *)

\* math.log(n / float(d)) in thousandths, rounded
LogTable ==
    << <<0, -693, -1099, -1386, -1609, -1792, -1946, -2079>>,
       <<693, 0, -405, -693, -916, -1099, -1253, -1386>>,
       <<1099, 405, 0, -288, -511, -693, -847, -981>>,
       <<1386, 693, 288, 0, -223, -405, -560, -693>>,
       <<1609, 916, 511, 223, 0, -182, -336, -470>>,
       <<1792, 1099, 693, 405, 182, 0, -154, -288>>,
       <<1946, 1253, 847, 560, 336, 154, 0, -134>>,
       <<2079, 1386, 981, 693, 470, 288, 134, 0>> >>

log(n, d) == LogTable[n][d]

\* mutant: counts.update(s) without set(), repeats inside a document are counted
UpdateDocCounts_repeats(counts, rep) ==
    [t \in DOMAIN counts \cup PySet(rep) |->
        (IF t \in DOMAIN counts THEN counts[t] ELSE 0) + Occurrences(rep, t)]

\* counts.update(set(s)): one more document for every distinct term of s
UpdateDocCounts(counts, rep) ==
    [t \in DOMAIN counts \cup PySet(rep) |->
        (IF t \in DOMAIN counts THEN counts[t] ELSE 0)
        + (IF t \in PySet(rep) THEN 1 ELSE 0)]

RECURSIVE CountDocs(_, _, _)
CountDocs(seqs, k, counts) ==
    IF k > Len(seqs) THEN counts
    ELSE CountDocs(seqs, k + 1, UpdateDocCounts(counts, seqs[k]))

\* DistanceScorer.term_weights_tfidf
term_weights_tfidf(ss, ts) ==
    LET counts == CountDocs(ts, 1, CountDocs(ss, 1, EmptyFun))
        n_documents == Len(ss) + Len(ts)
    IN [term \in DOMAIN counts |-> log(n_documents, counts[term])]

\* DistanceScorer.term_weights_flat: Counter(all_terms), all ones
term_weights_flat(ss, ts) ==
    LET all_terms == UNION ({PySet(ss[k]) : k \in 1..Len(ss)}
                            \cup {PySet(ts[k]) : k \in 1..Len(ts)})
    IN [term \in all_terms |-> 1]

\* self.weights is None, or a table term -> weight
NoWeights == [none |-> TRUE, table |-> EmptyFun]

Table(tab) == [none |-> FALSE, table |-> tab]

Weightings == {"none", "tfidf", "tf"}

\* lines 243-248 of _extract: self.weights is assigned only for 'tfidf' and
\* 'tf'; with any other weighting the field keeps the value it had
WeightsAfterExtract(old, w, ss, ts) ==
    IF w = "tfidf" THEN Table(term_weights_tfidf(ss, ts))
    ELSE IF w = "tf" THEN Table(term_weights_flat(ss, ts))
    ELSE old

\* The pluggable ratio_function(weights, seq1, seq2): the weighted overlap of
\* the two term sets, every term weighing 1000 (1.0) without a table
ratio_function(w, rep1, rep2) ==
    LET common == PySet(rep1) \cap PySet(rep2)
        wt == [t \in common |->
                 IF w.none THEN 1000
                 ELSE IF t \in DOMAIN w.table THEN w.table[t] ELSE 0]
    IN SumOver(common, wt)

\* ratio_pool(seqs2, ratio_function, weights, seq1): one row of scores
ratio_pool(seqs2, w, seq1) ==
    [j \in 1..Len(seqs2) |-> ratio_function(w, seq1, seqs2[j])]

---------------------------------------------------------------------------
(* DistanceScorer: construction and score() *)

\* np.zeros((n, m))
Zeros(n, m) == [i \in 1..n |-> [j \in 1..m |-> 0]]

\* mutant: the assertion of __init__ is missing
BothRequested_unchecked(sb, cb) == FALSE

\* the condition rejected by the assert of __init__
BothRequested(sb, cb) == cb /\ sb

\* mutant: the inner loop stops one column early
ColRange_short(ts) == IF Len(ts) > 0 THEN Len(ts) - 1 ELSE 0

\* xrange(len(self.tseqs)): number of columns the inner loop visits
ColRange(ts) == Len(ts)

\* xrange(len(self.sseqs)) and enumerate(pool.imap(rf, self.sseqs)): number of rows
RowRange(ss) == Len(ss)

\* rows (1-based) of the k-th chunk handed to the pool by imap(..., chunksize)
ChunkRows(k, n) == {r \in 1..n : (r - 1) \div ChunkSize = k - 1}

NumChunks(n) == (n + ChunkSize - 1) \div ChunkSize

\* mutant: results are yielded in the order in which they arrive (imap_unordered)
imap_yield_unordered(res, fin, idx) == res[fin[idx + 1]]

\* the idx-th item of the iterator returned by pool.imap: the result of the
\* idx-th submitted row, whenever it arrived
imap_yield(res, fin, idx) == res[idx + 1]

ScoreIdleNER ==
    /\ npc = "off" /\ n_corpus = <<>> /\ n_doc = 0 /\ n_line = 0
    /\ entities = EmptyFun /\ s_entities = <<>> /\ n_base = 0 /\ n_log = <<>>

ScoreIdleVec ==
    /\ vpc = "off" /\ idf = [ndocs |-> 0, lines |-> <<>>] /\ min_count = 0
    /\ min_term_count = "unset" /\ v_corpus = <<>>
    /\ tables = [error |-> "", term2idf |-> EmptyFun, term2idx |-> EmptyFun,
                 ignored_terms |-> {}]

ScoreIdleBlocks ==
    /\ bpc = "off" /\ sblocks = <<>> /\ tblocks = <<>> /\ b_seen = NoCall

ScoreIdleCand ==
    /\ cpc = "off" /\ linenr = 0 /\ candidates = <<>> /\ outfile = <<>>
    /\ c_input = <<>> /\ c_roles = <<>>

ScoreIdleAux == ScoreIdleNER /\ ScoreIdleVec /\ ScoreIdleBlocks /\ ScoreIdleCand

ScoreIdleGC ==
    /\ gpc = "off" /\ source_sents = <<>> /\ target_sents = <<>> /\ max_dist = 0
    /\ D = <<>> /\ gi = 0 /\ gj = 0 /\ ret = 0 /\ full = EmptyFun /\ prev = <<>>

ScoreIdleDict ==
    /\ dpc = "off" /\ dictfile = NoFile /\ lang1 = "" /\ lang2 = ""
    /\ dictionary = EmptyFun /\ loaded = EmptyFun /\ sdocs = <<>> /\ tdocs = <<>>
    /\ s_words = {} /\ t_words = {} /\ pair_score = <<>> /\ d_seen = NoCall

ScoreIdle ==
    /\ pc = "off" /\ set_based = FALSE /\ count_based = FALSE
    /\ source_corpus = <<>> /\ target_corpus = <<>> /\ weighting = "none"
    /\ pool = 0 /\ sseqs = <<>> /\ tseqs = <<>> /\ weights = NoWeights
    /\ scoring_matrix = <<>> /\ writes = <<>> /\ s_idx = 0 /\ t_idx = 0
    /\ chunks = <<>> /\ results = EmptyFun /\ finished = <<>> /\ handed = {}
    /\ extracted = 0

\* before the constructor has run
Init ==
    /\ pc = "new" /\ set_based = FALSE /\ count_based = FALSE
    /\ source_corpus = <<>> /\ target_corpus = <<>> /\ weighting = "none"
    /\ pool = 0 /\ sseqs = <<>> /\ tseqs = <<>> /\ weights = NoWeights
    /\ scoring_matrix = <<>> /\ writes = <<>> /\ s_idx = 0 /\ t_idx = 0
    /\ chunks = <<>> /\ results = EmptyFun /\ finished = <<>> /\ handed = {}
    /\ extracted = 0
    /\ ScoreIdleGC /\ ScoreIdleDict /\ ScoreIdleAux

\* DistanceScorer.__init__(extraction_mapper, ratio_function, set_based, count_based)
Construct(sb, cb) ==
    /\ pc = "new"
    /\ set_based' = sb
    /\ count_based' = cb
    /\ pc' = IF BothRequested(sb, cb) THEN "rejected" ELSE "ready"
    /\ weights' = NoWeights
    /\ UNCHANGED <<source_corpus, target_corpus, weighting, pool, sseqs, tseqs,
                   scoring_matrix, writes, s_idx, t_idx, chunks, results, finished,
                   handed, extracted>>
    /\ UNCHANGED <<gcVars, dictVars, auxVars>>

\* score(source_corpus, target_corpus, pool, weighting) up to the first loop:
\* _extract (lines 235-248), the zero matrix, and with a pool the dispatch
\* of the rows in chunks (lines 266-269)
ScoreBegin(sc, tc, p, w) ==
    /\ pc = "ready"
    /\ extracted + Len(sc) + Len(tc) <= MaxExtracted
    /\ source_corpus' = sc
    /\ target_corpus' = tc
    /\ pool' = p
    /\ weighting' = w
    /\ sseqs' = Coerce(extract(sc), set_based, count_based)
    /\ tseqs' = Coerce(extract(tc), set_based, count_based)
    /\ extracted' = extracted + Len(sc) + Len(tc)
    /\ weights' = WeightsAfterExtract(weights, w, sseqs', tseqs')
    /\ scoring_matrix' = Zeros(Len(sc), Len(tc))
    /\ writes' = Zeros(Len(sc), Len(tc))
    /\ s_idx' = 0
    /\ t_idx' = 0
    /\ handed' = {}
    /\ results' = EmptyFun
    /\ finished' = <<>>
    /\ chunks' = IF p = 0 THEN <<>> ELSE [k \in 1..NumChunks(Len(sc)) |-> "queued"]
    /\ pc' = IF p = 0 THEN "seq" ELSE "pool"
    /\ UNCHANGED <<set_based, count_based>>
    /\ UNCHANGED <<gcVars, dictVars, auxVars>>

\* lines 257-260: one cell of the sequential branch
SeqCell ==
    /\ pc = "seq"
    /\ s_idx < RowRange(sseqs)
    /\ t_idx < ColRange(tseqs)
    /\ scoring_matrix' =
         [scoring_matrix EXCEPT ![s_idx + 1][t_idx + 1] =
             ratio_function(weights, sseqs[s_idx + 1], tseqs[t_idx + 1])]
    /\ writes' = [writes EXCEPT ![s_idx + 1][t_idx + 1] = @ + 1]
    /\ handed' = handed \cup {weights}
    /\ t_idx' = t_idx + 1
    /\ UNCHANGED <<pc, set_based, count_based, source_corpus, target_corpus,
                   weighting, pool, sseqs, tseqs, weights, s_idx, chunks, results,
                   finished, extracted>>
    /\ UNCHANGED <<gcVars, dictVars, auxVars>>

\* lines 255-256, 261: the inner loop is exhausted, on to the next row
SeqRowEnd ==
    /\ pc = "seq"
    /\ s_idx < RowRange(sseqs)
    /\ t_idx >= ColRange(tseqs)
    /\ s_idx' = s_idx + 1
    /\ t_idx' = 0
    /\ UNCHANGED <<pc, set_based, count_based, source_corpus, target_corpus,
                   weighting, pool, sseqs, tseqs, weights, scoring_matrix, writes,
                   chunks, results, finished, handed, extracted>>
    /\ UNCHANGED <<gcVars, dictVars, auxVars>>

\* a free worker of the pool takes the next queued chunk
WorkerTake(k) ==
    /\ pc = "pool"
    /\ k \in DOMAIN chunks
    /\ chunks[k] = "queued"
    /\ \A q \in 1..(k - 1) : chunks[q] # "queued"
    /\ Cardinality({q \in DOMAIN chunks : chunks[q] = "running"}) < pool
    /\ chunks' = [chunks EXCEPT ![k] = "running"]
    /\ UNCHANGED <<pc, set_based, count_based, source_corpus, target_corpus,
                   weighting, pool, sseqs, tseqs, weights, scoring_matrix, writes,
                   s_idx, t_idx, results, finished, handed, extracted>>
    /\ UNCHANGED <<gcVars, dictVars, auxVars>>

\* a worker finishes its chunk: ratio_pool for each of its rows (lines 26-28)
WorkerFinish(k) ==
    /\ pc = "pool"
    /\ k \in DOMAIN chunks
    /\ chunks[k] = "running"
    /\ chunks' = [chunks EXCEPT ![k] = "done"]
    /\ LET rows == ChunkRows(k, Len(sseqs))
       IN /\ results' = [r \in DOMAIN results \cup rows |->
                           IF r \in rows THEN ratio_pool(tseqs, weights, sseqs[r])
                           ELSE results[r]]
          /\ finished' = finished \o
                [n \in 1..Cardinality(rows) |-> (k - 1) * ChunkSize + n]
    /\ handed' = IF Len(tseqs) > 0 THEN handed \cup {weights} ELSE handed
    /\ UNCHANGED <<pc, set_based, count_based, source_corpus, target_corpus,
                   weighting, pool, sseqs, tseqs, weights, scoring_matrix, writes,
                   s_idx, t_idx, extracted>>
    /\ UNCHANGED <<gcVars, dictVars, auxVars>>

\* lines 268-271: the main thread receives the next item of imap and stores the row
PoolCollect ==
    /\ pc = "pool"
    /\ s_idx < RowRange(sseqs)
    /\ (s_idx + 1) \in DOMAIN results
    /\ scoring_matrix' =
         [scoring_matrix EXCEPT ![s_idx + 1] = imap_yield(results, finished, s_idx)]
    /\ writes' = [writes EXCEPT ![s_idx + 1] = [j \in DOMAIN @ |-> @[j] + 1]]
    /\ s_idx' = s_idx + 1
    /\ UNCHANGED <<pc, set_based, count_based, source_corpus, target_corpus,
                   weighting, pool, sseqs, tseqs, weights, t_idx, chunks, results,
                   finished, handed, extracted>>
    /\ UNCHANGED <<gcVars, dictVars, auxVars>>

\* line 283: return scoring_matrix
Return ==
    /\ pc \in {"seq", "pool"}
    /\ s_idx >= RowRange(sseqs)
    /\ pc' = "done"
    /\ UNCHANGED <<set_based, count_based, source_corpus, target_corpus, weighting,
                   pool, sseqs, tseqs, weights, scoring_matrix, writes, s_idx, t_idx,
                   chunks, results, finished, handed, extracted>>
    /\ UNCHANGED <<gcVars, dictVars, auxVars>>

\* the caller is done with the returned matrix: the locals of score() are gone,
\* the fields of the scorer stay as the call left them
Discard ==
    /\ pc = "done"
    /\ pc' = "ready"
    /\ source_corpus' = <<>> /\ target_corpus' = <<>> /\ weighting' = "none"
    /\ pool' = 0 /\ scoring_matrix' = <<>> /\ writes' = <<>>
    /\ s_idx' = 0 /\ t_idx' = 0 /\ chunks' = <<>> /\ results' = EmptyFun
    /\ finished' = <<>> /\ handed' = {}
    /\ UNCHANGED <<set_based, count_based, sseqs, tseqs, weights, extracted>>
    /\ UNCHANGED <<gcVars, dictVars, auxVars>>

Next ==
    \/ \E sb \in BOOLEAN, cb \in BOOLEAN : Construct(sb, cb)
    \/ \E cp \in CorpusPairs, p \in 0..MaxPool, w \in Weightings :
          ScoreBegin(cp[1], cp[2], p, w)
    \/ SeqCell
    \/ SeqRowEnd
    \/ \E k \in 1..NumChunks(MaxDocs) : WorkerTake(k)
    \/ \E k \in 1..NumChunks(MaxDocs) : WorkerFinish(k)
    \/ PoolCollect
    \/ Return
    \/ Discard

Spec == Init /\ [][Next]_vars

---------------------------------------------------------------------------
(* Properties of DistanceScorer, checked under Spec *)

\* the matrix the sequential branch (lines 254-260) leaves for given fields
SequentialMatrix(w, ss, ts) ==
    [i \in 1..RowRange(ss) |-> [j \in 1..ColRange(ts) |-> ratio_function(w, ss[i], ts[j])]]

InCall == pc \in {"seq", "pool", "done"}

\* C1: score() returns a matrix of len(source) rows and len(target) columns;
\* in both branches every cell is assigned exactly once, with
\* ratio_function(weights, sseqs[i], tseqs[j]); no cell is ever assigned twice
\* and the pooled branch never leaves a row partially written.
C1_MatrixComplete ==
    /\ InCall =>
         /\ Len(scoring_matrix) = Len(source_corpus)
         /\ \A i \in 1..Len(source_corpus) :
              /\ Len(scoring_matrix[i]) = Len(target_corpus)
              /\ \A j \in 1..Len(target_corpus) : writes[i][j] <= 1
    /\ pc = "pool" =>
         \A i \in 1..Len(source_corpus) :
            \A j1, j2 \in 1..Len(target_corpus) : writes[i][j1] = writes[i][j2]
    /\ pc = "done" =>
         \A i \in 1..Len(source_corpus) : \A j \in 1..Len(target_corpus) :
            /\ writes[i][j] = 1
            /\ scoring_matrix[i][j] = ratio_function(weights, sseqs[i], tseqs[j])

\* a sequential call on two source pages and one target page has returned
C1_Witness ==
    /\ pc = "done" /\ pool = 0
    /\ Len(source_corpus) = 2 /\ Len(target_corpus) = 1
    /\ scoring_matrix[1][1] # scoring_matrix[2][1]

\* C2: with a pool, whatever its size and whatever the order in which the
\* workers finish their chunks, score() returns the matrix the sequential
\* branch returns for the same scorer, corpora and weighting.
C2_PoolEqualsSequential ==
    (pc = "done" /\ pool > 0) =>
        scoring_matrix = SequentialMatrix(weights, sseqs, tseqs)

\* a pooled call whose second row was finished before its first has returned
C2_Witness ==
    /\ pc = "done" /\ pool = 2
    /\ Len(finished) = 2 /\ finished[1] = 2 /\ finished[2] = 1
    /\ Len(target_corpus) = 1
    /\ scoring_matrix[1] # scoring_matrix[2]

\* the table the running call's weighting policy yields on its own representations
WeightsOfThisCall ==
    IF weighting = "tfidf" THEN Table(term_weights_tfidf(sseqs, tseqs))
    ELSE IF weighting = "tf" THEN Table(term_weights_flat(sseqs, tseqs))
    ELSE NoWeights

\* C5: in every score() call, on a fresh or on a reused scorer, the weight
\* table handed to each pairwise evaluation is the one of that call's
\* corpora and weighting policy (None when the call requests no weighting).
C5_WeightsOfTheCall ==
    InCall => \A w \in handed : w = WeightsOfThisCall

\* what _extract must leave for one page under the flags of the scorer
CoercedAs(rep, page) ==
    LET raw == ngrams_from_text(page)
    IN IF set_based THEN rep.kind = "set" /\ rep.items = Range(raw)
       ELSE IF count_based THEN
            /\ rep.kind = "counter"
            /\ DOMAIN rep.items = Range(raw)
            /\ \A t \in Range(raw) :
                 rep.items[t] = Cardinality({k \in 1..Len(raw) : raw[k] = t})
       ELSE rep.kind = "list" /\ rep.items = raw

\* C6: a scorer requested with set_based and count_based is rejected by the
\* constructor, before any page is extracted; any other scorer is
\* constructed, and _extract leaves sets, multisets or the unchanged lists.
C6_Configuration ==
    /\ pc # "new" => (pc = "rejected" <=> (set_based /\ count_based))
    /\ pc = "rejected" => extracted = 0 /\ sseqs = <<>> /\ tseqs = <<>>
    /\ InCall =>
         /\ Len(sseqs) = Len(source_corpus) /\ Len(tseqs) = Len(target_corpus)
         /\ \A k \in 1..Len(source_corpus) : CoercedAs(sseqs[k], source_corpus[k])
         /\ \A k \in 1..Len(target_corpus) : CoercedAs(tseqs[k], target_corpus[k])

\* the constructor has rejected a scorer requested with both flags
C6_Witness == pc = "rejected" /\ set_based /\ count_based

\* number of pages of both corpora whose n-grams contain the term
DocsContaining(term) ==
    Cardinality({k \in 1..Len(source_corpus) :
                    term \in Range(ngrams_from_text(source_corpus[k]))})
    + Cardinality({k \in 1..Len(target_corpus) :
                    term \in Range(ngrams_from_text(target_corpus[k]))})

ObservedTerms ==
    UNION ({Range(ngrams_from_text(source_corpus[k])) : k \in 1..Len(source_corpus)}
           \cup {Range(ngrams_from_text(target_corpus[k])) : k \in 1..Len(target_corpus)})

\* C7: with weighting 'tfidf' every term observed in either corpus has the
\* weight ln(N / df), N the pages of both corpora, df the pages containing the
\* term (repeats inside a page counted once): 0 for a term of every page,
\* ln(N) for a term of exactly one page.
C7_Tfidf ==
    (InCall /\ weighting = "tfidf") =>
        LET N == Len(source_corpus) + Len(target_corpus)
        IN /\ ~weights.none
           /\ DOMAIN weights.table = ObservedTerms
           /\ \A term \in ObservedTerms :
                /\ weights.table[term] = log(N, DocsContaining(term))
                /\ DocsContaining(term) = N => weights.table[term] = 0
                /\ DocsContaining(term) = 1 => weights.table[term] = log(N, 1)

\* three pages, "a" repeated inside a page and contained in two, "" in one
C7_Witness ==
    /\ pc = "done" /\ weighting = "tfidf"
    /\ Len(source_corpus) + Len(target_corpus) = 3
    /\ \E k \in 1..Len(source_corpus) : source_corpus[k] = <<"a", "a">>
    /\ DocsContaining("a") = 2
    /\ DocsContaining("") = 1
    /\ weights.table[""] = 1099
    /\ weights.table["a"] = 405

---------------------------------------------------------------------------
(* GaleChurchWrapper.align_score *)

MaxSents == 2
\* sentences of the source side of a single call: enough for rows of the
\* table to be read after older rows have been discarded
MaxSourceSents == 4

\* character lengths of the sentences; the block extractors emit the lengths
\* of non-empty sentences, so a length is at least 1
SentLens == {1, 3}

SentSeqs == SeqsUpTo(SentLens, MaxSents)

SourceSeqs == SeqsUpTo(SentLens, MaxSourceSents)

\* the cutoff in tenths: the default max_dist=100, and a caller's max_dist=11
MaxDists == {110, 1000}

\* self.alignment_types: the keys of gale_church.LanguageIndependent.PRIORS
alignment_types == {<<1, 1>>, <<1, 0>>, <<0, 1>>, <<2, 1>>, <<1, 2>>, <<2, 2>>}

\* -math.log(PRIORS[alignment]) in tenths, rounded
PriorCost(a) ==
    CASE a = <<1, 1>> -> 1
      [] a = <<1, 0>> -> 46
      [] a = <<0, 1>> -> 46
      [] a = <<2, 1>> -> 24
      [] a = <<1, 2>> -> 24
      [] OTHER -> 45

\* -(LOG2 + norm_logsf(abs(delta))) in tenths, rounded, by (l_s, l_t), with
\* delta = (l_s - l_t) / sqrt(6.8 * (l_s + l_t) / 2)
MismatchTable ==
    << <<0, 5, 8, 11, 13, 15, 17>>,
       <<5, 0, 3, 5, 8, 10, 12>>,
       <<8, 3, 0, 2, 4, 6, 8>>,
       <<11, 5, 2, 0, 2, 4, 5>>,
       <<13, 8, 4, 2, 0, 2, 3>>,
       <<15, 10, 6, 4, 2, 0, 1>>,
       <<17, 12, 8, 5, 3, 1, 0>> >>

\* sum(sents[i - offset - 1] for offset in range(n))
RECURSIVE SumBack(_, _, _)
SumBack(sents, i, n) ==
    IF n = 0 THEN 0 ELSE sents[i - n + 1] + SumBack(sents, i, n - 1)

\* gale_church.align_log_prob(i, j, source_sents, target_sents, a, params):
\* the cost of the bead a ending at prefix lengths (i, j)
align_log_prob(i, j, ss, ts, a) ==
    LET l_s == SumBack(ss, i, a[1])
        l_t == SumBack(ts, j, a[2])
    IN MismatchTable[l_s + 1][l_t + 1] + PriorCost(a)

SetMin(S) == CHOOSE x \in S : \A y \in S : x <= y

\* mutant: a bead of two source sentences reads the row before the current one
PrevRow_adjacent(d, a) == Len(d) - (IF a[1] = 2 THEN 1 ELSE a[1])

\* D[prev_i] with prev_i = -1 - a[0]: the row counted from the end of D
PrevRow(d, a) == Len(d) - a[1]

\* lines 307-318: the costs p of the alignment types that are not skipped
Candidates(d, i, j, ss, ts) ==
    {d[PrevRow(d, a)][(j - a[2]) + 1] + align_log_prob(i, j, ss, ts, a) :
        a \in {b \in alignment_types : ~((-1 - b[1]) < -Len(d) \/ (j - b[2]) < 0)}}

\* line 323: min_dist >= max_dist
ReachesCutoff(min_dist, m) == min_dist >= m

\* mutant: the negated cost, also for a cost of 0
FinalScore_plain(cost, m) == -cost

\* lines 335-337: the value returned once the table is complete
FinalScore(cost, m) == IF cost = 0 THEN -m ELSE -cost

\* The complete table computed without the cutoff and without discarding
\* rows: the cost of cell (i, j), 0 where no bead fits
RefCell(ss, ts, i, j) ==
    LET C[x \in 0..i, y \in 0..j] ==
            LET fits == {a \in alignment_types : a[1] <= x /\ a[2] <= y}
            IN IF fits = {} THEN 0
               ELSE SetMin({C[x - a[1], y - a[2]] + align_log_prob(x, y, ss, ts, a) :
                               a \in fits})
    IN C[i, j]

\* the final cost: the last cell of the complete table
RefCost(ss, ts) == RefCell(ss, ts, Len(ss), Len(ts))

InitGC ==
    /\ gpc = "idle" /\ source_sents = <<>> /\ target_sents = <<>> /\ max_dist = 0
    /\ D = <<>> /\ gi = 0 /\ gj = 0 /\ ret = 0 /\ full = EmptyFun /\ prev = <<>>
    /\ ScoreIdle /\ ScoreIdleDict /\ ScoreIdleAux

\* align_score(source_sents, target_sents, max_dist): line 299
GCCall(ss, ts, m) ==
    /\ gpc \in {"idle", "returned", "cut"}
    /\ prev' = IF gpc = "idle" THEN prev
               ELSE <<max_dist, RefCost(source_sents, target_sents), ret>>
    /\ source_sents' = ss
    /\ target_sents' = ts
    /\ max_dist' = m
    /\ D' = << <<>> >>
    /\ gi' = 0
    /\ gj' = 0
    /\ ret' = 0
    /\ full' = EmptyFun
    /\ gpc' = "cell"
    /\ UNCHANGED <<scoreVars, dictVars, auxVars>>

\* lines 304-327: one cell (i, j) of the table
GCCell ==
    /\ gpc = "cell"
    /\ gi <= Len(source_sents)
    /\ gj <= Len(target_sents)
    /\ LET cands == Candidates(D, gi, gj, source_sents, target_sents)
           min_dist == IF cands = {} THEN 0 ELSE SetMin(cands)
       IN IF cands # {} /\ ReachesCutoff(min_dist, max_dist)
          THEN /\ gpc' = "cut"
               /\ ret' = max_dist
               /\ UNCHANGED <<D, gj, full>>
          ELSE /\ D' = [D EXCEPT ![Len(D)] = Append(@, min_dist)]
               /\ full' = [c \in DOMAIN full \cup {<<gi, gj>>} |->
                             IF c = <<gi, gj>> THEN min_dist ELSE full[c]]
               /\ gj' = gj + 1
               /\ UNCHANGED <<gpc, ret>>
    /\ UNCHANGED <<source_sents, target_sents, max_dist, gi, prev>>
    /\ UNCHANGED <<scoreVars, dictVars, auxVars>>

\* lines 329-331: the row is complete
GCRowEnd ==
    /\ gpc = "cell"
    /\ gi <= Len(source_sents)
    /\ gj > Len(target_sents)
    /\ D' = Append(IF Len(D) > 2 THEN Tail(D) ELSE D, <<>>)
    /\ gi' = gi + 1
    /\ gj' = 0
    /\ UNCHANGED <<gpc, source_sents, target_sents, max_dist, ret, full, prev>>
    /\ UNCHANGED <<scoreVars, dictVars, auxVars>>

\* lines 335-337: D[-2][-1] is the last cell of the last row
GCReturn ==
    /\ gpc = "cell"
    /\ gi > Len(source_sents)
    /\ ret' = FinalScore(D[Len(D) - 1][Len(D[Len(D) - 1])], max_dist)
    /\ gpc' = "returned"
    /\ UNCHANGED <<source_sents, target_sents, max_dist, D, gi, gj, full, prev>>
    /\ UNCHANGED <<scoreVars, dictVars, auxVars>>

NextGC ==
    \/ \E ss \in SentSeqs, ts \in SentSeqs, m \in MaxDists : GCCall(ss, ts, m)
    \/ GCCell
    \/ GCRowEnd
    \/ GCReturn

SpecGC == InitGC /\ [][NextGC]_vars

\* align_score as a function of its arguments: one call, with a source side
\* of up to MaxSourceSents sentences
GCFirstCall(ss, ts, m) ==
    /\ gpc = "idle"
    /\ GCCall(ss, ts, m)

NextGCOnce ==
    \/ \E ss \in SourceSeqs, ts \in SentSeqs, m \in MaxDists : GCFirstCall(ss, ts, m)
    \/ GCCell
    \/ GCRowEnd
    \/ GCReturn

SpecGCOnce == InitGC /\ [][NextGCOnce]_vars

---------------------------------------------------------------------------
(* Properties of align_score, checked under SpecGC (C3, C4) and under
   SpecGCOnce (C13, C14) *)

GCDone == gpc \in {"returned", "cut"}

\* C3: align_score returns the negation of the final cost of the table, a
\* final cost of 0 as -max_dist, and of two sequence pairs scored under the
\* same cutoff the one with the lower final cost never gets the lower score.
C3_HigherIsMoreSimilar ==
    GCDone =>
        LET cost == RefCost(source_sents, target_sents)
        IN /\ ret = (IF cost = 0 THEN -max_dist ELSE -cost)
           /\ (prev # <<>> /\ prev[1] = max_dist) =>
                /\ cost < prev[2] => ret >= prev[3]
                /\ prev[2] < cost => prev[3] >= ret

\* C4: when align_score returns early it returns max_dist, and the final cost
\* of the complete table computed without the cutoff is at least max_dist too.
C4_CutoffIsCostEquivalent ==
    gpc = "cut" =>
        /\ ret = max_dist
        /\ RefCost(source_sents, target_sents) >= max_dist

\* C13: align_score on two empty sequences is never cut short and returns
\* -max_dist: its only cell (0, 0) has no bead to come from, takes the cost 0,
\* and the final cost 0 is returned as -max_dist.
C13_EmptyIsDegenerate ==
    (gpc \in {"cell", "returned", "cut"} /\ source_sents = <<>> /\ target_sents = <<>>) =>
        /\ gpc # "cut"
        /\ DOMAIN full \subseteq {<<0, 0>>}
        /\ <<0, 0>> \in DOMAIN full => full[<<0, 0>>] = 0
        /\ (gi = 0 /\ gj = 0) => Candidates(D, 0, 0, source_sents, target_sents) = {}
        /\ gpc = "returned" => ret = -max_dist /\ DOMAIN full = {<<0, 0>>}

\* two empty sequences under the default cutoff
C13_Witness ==
    /\ gpc = "returned"
    /\ source_sents = <<>>
    /\ target_sents = <<>>
    /\ max_dist = 1000
    /\ ret = -1000

---------------------------------------------------------------------------
(* DictionaryScorer *)

MaxLines == 2
\* pages appended to sdocs and tdocs together, over all _extract calls
MaxDictDocs == 3

\* language codes, as written in a header or as requested
LangCodes == {"en", "de", "EN"}

\* words as written in the lexicon file or in a page
RawWords == {"Haus", "house"}

\* str.lower()
Lower(str) ==
    CASE str = "Haus" -> "haus"
      [] str = "EN" -> "en"
      [] str = "DE" -> "de"
      [] OTHER -> str

\* an entry line split at tabs: a blank line, or 1, 2 or 3 fields
EntryLines ==
    {<<>>, <<"Haus">>, <<"Haus", "house", "Haus">>} \cup (RawWords \X RawWords)

DictFiles ==
    [header : LangCodes \X LangCodes, lines : SeqsUpTo(EntryLines, MaxLines)]

\* the text of a page: the set of its tokens
DictPages == SUBSET RawWords

\* a corpus of n pages
DictCorpora(n) == [1..n -> DictPages]

\* self.dictionary[key].add(value) on a defaultdict(set)
DictAdd(dict, key, value) ==
    [w \in DOMAIN dict \cup {key} |->
        IF w = key THEN (IF key \in DOMAIN dict THEN dict[key] ELSE {}) \cup {value}
        ELSE dict[w]]

\* line 516: the header names the requested pair in reversed order
HeaderReversed(l1, l2, la1, la2) == l2 = la1 /\ l1 = la2

\* line 519: the header names the requested pair in order
HeaderInOrder(l1, l2, la1, la2) == l1 = la1 /\ l2 = la2

\* lines 522-533: the entries, one line after the other
RECURSIVE ReadEntries(_, _, _, _)
ReadEntries(lines, k, swap, dict) ==
    IF k > Len(lines) THEN dict
    ELSE LET line == [f \in 1..Len(lines[k]) |-> Lower(lines[k][f])]
         IN IF Len(line) # 2 THEN ReadEntries(lines, k + 1, swap, dict)
            ELSE LET w1 == IF swap THEN line[2] ELSE line[1]
                     w2 == IF swap THEN line[1] ELSE line[2]
                 IN ReadEntries(lines, k + 1, swap, DictAdd(dict, w2, w1))

\* DictionaryScorer._words_from_text(text, tokenizer)
words_from_text(page) == {Lower(w) : w \in page}

\* mutant: a word that is already a key is not given its self-translation
extend_dictionary_newkeys(dict, sw, tw) ==
    [w \in DOMAIN dict \cup (sw \cap tw) |-> IF w \in DOMAIN dict THEN dict[w] ELSE {w}]

\* DictionaryScorer._extend_dictionary
extend_dictionary(dict, sw, tw) ==
    [w \in DOMAIN dict \cup (sw \cap tw) |->
        IF w \in sw \cap tw
        THEN (IF w \in DOMAIN dict THEN dict[w] ELSE {}) \cup {w}
        ELSE dict[w]]

\* DictionaryScorer._translate_bow(bow): (n_translated, translation)
RECURSIVE translate_bow(_, _)
translate_bow(dict, bow) ==
    IF bow = {} THEN <<0, {}>>
    ELSE LET w == CHOOSE x \in bow : TRUE
             rest == translate_bow(dict, bow \ {w})
         IN IF w \in DOMAIN dict
            THEN <<rest[1] + 1, rest[2] \cup dict[w]>>
            ELSE rest

\* mutant: the count is normalised by the number of translated words
bitextor_distance_normalised(dict, set1, set2) ==
    LET tr == translate_bow(dict, set2)
        n_common == Cardinality(tr[2] \cap set1)
    IN IF Cardinality(set1) = 0 \/ Cardinality(set2) = 0 \/ tr[1] = 0 THEN 0
       ELSE n_common \div tr[1]

\* DictionaryScorer._bitextor_distance(set1, set2)
bitextor_distance(dict, set1, set2) ==
    LET tr == translate_bow(dict, set2)
        n_translated == tr[1]
        translated_set2 == tr[2]
        size_smaller == IF Cardinality(set1) < Cardinality(set2)
                        THEN Cardinality(set1) ELSE Cardinality(set2)
        n_common == Cardinality(translated_set2 \cap set1)
    IN IF size_smaller = 0 \/ n_translated = 0 THEN 0 ELSE n_common

\* before the constructor has run
DictNew ==
    /\ dpc = "new" /\ dictfile = NoFile /\ lang1 = "" /\ lang2 = ""
    /\ dictionary = EmptyFun /\ loaded = EmptyFun /\ sdocs = <<>> /\ tdocs = <<>>
    /\ s_words = {} /\ t_words = {} /\ pair_score = <<>> /\ d_seen = NoCall

InitDict ==
    /\ DictNew
    /\ ScoreIdle /\ ScoreIdleGC /\ ScoreIdleAux

\* __init__ up to read_dictionary(dictfile, lang1, lang2), lines 495-500 and 510-535
ReadDictionary(file, la1, la2) ==
    /\ dpc = "new"
    /\ dictfile' = file
    /\ lang1' = la1
    /\ lang2' = la2
    /\ LET l1 == Lower(file.header[1])
           l2 == Lower(file.header[2])
           swap == HeaderReversed(l1, l2, la1, la2)
       IN IF ~swap /\ ~HeaderInOrder(l1, l2, la1, la2)
          THEN /\ dpc' = "error"
               /\ dictionary' = EmptyFun
          ELSE /\ dpc' = "loaded"
               /\ dictionary' = ReadEntries(file.lines, 1, swap, EmptyFun)
    /\ loaded' = dictionary'
    /\ UNCHANGED <<sdocs, tdocs, s_words, t_words, pair_score, d_seen>>
    /\ UNCHANGED <<scoreVars, gcVars, auxVars>>

\* the rest of __init__, lines 502-508: the constructor returns, its arguments are gone
Constructed ==
    /\ dpc = "loaded"
    /\ dpc' = "ready"
    /\ dictfile' = NoFile
    /\ lang1' = ""
    /\ lang2' = ""
    /\ UNCHANGED <<dictionary, loaded, sdocs, tdocs, s_words, t_words, pair_score,
                   d_seen>>
    /\ UNCHANGED <<scoreVars, gcVars, auxVars>>

\* DictionaryScorer._extract(source_corpus, target_corpus), lines 564-575
DictExtract(sc, tc) ==
    /\ dpc \in {"ready", "extracted"}
    /\ Len(sdocs) + Len(tdocs) + Len(sc) + Len(tc) <= MaxDictDocs
    /\ sdocs' = sdocs \o [k \in 1..Len(sc) |-> words_from_text(sc[k])]
    /\ tdocs' = tdocs \o [k \in 1..Len(tc) |-> words_from_text(tc[k])]
    /\ s_words' = s_words \cup UNION {words_from_text(sc[k]) : k \in 1..Len(sc)}
    /\ t_words' = t_words \cup UNION {words_from_text(tc[k]) : k \in 1..Len(tc)}
    /\ dictionary' = extend_dictionary(dictionary, s_words', t_words')
    /\ pair_score' = <<>>
    /\ d_seen' = [sdocs |-> sdocs, tdocs |-> tdocs, sc |-> sc, tc |-> tc]
    /\ dpc' = "extracted"
    /\ UNCHANGED <<dictfile, lang1, lang2, loaded>>
    /\ UNCHANGED <<scoreVars, gcVars, auxVars>>

\* DictionaryScorer._score_pair(s_idx, s_page, t_idx, t_page), lines 595-596
ScorePair(si, ti) ==
    /\ dpc = "extracted"
    /\ si < Len(sdocs)
    /\ ti < Len(tdocs)
    /\ pair_score' = <<si, ti, bitextor_distance(dictionary, sdocs[si + 1], tdocs[ti + 1])>>
    /\ UNCHANGED <<dpc, dictfile, lang1, lang2, dictionary, loaded, sdocs, tdocs,
                   s_words, t_words, d_seen>>
    /\ UNCHANGED <<scoreVars, gcVars, auxVars>>

NextDict ==
    \/ \E file \in DictFiles, la1 \in LangCodes :
          \E la2 \in {c \in LangCodes : Lower(c) # Lower(la1)} :
             ReadDictionary(file, la1, la2)
    \/ Constructed
    \/ \E n \in 0..MaxDictDocs : \E m \in 0..(MaxDictDocs - n) :
          \E sc \in DictCorpora(n), tc \in DictCorpora(m) : DictExtract(sc, tc)
    \/ \E si \in 0..(MaxDictDocs - 1), ti \in 0..(MaxDictDocs - 1) : ScorePair(si, ti)

SpecDict == InitDict /\ [][NextDict]_vars

---------------------------------------------------------------------------
(* Properties of DictionaryScorer, checked under SpecDict *)

\* C8: the pair score is the raw number of source words found among the
\* translations of the target words that are dictionary keys; it is 0 when
\* the source set is empty, the target set is empty or no target word is a key.
C8_RawTranslatedOverlap ==
    pair_score # <<>> =>
        LET S == sdocs[pair_score[1] + 1]
            T == tdocs[pair_score[2] + 1]
            keys == T \cap DOMAIN dictionary
        IN /\ pair_score[3] = Cardinality(S \cap UNION {dictionary[w] : w \in keys})
           /\ (S = {} \/ T = {} \/ keys = {}) => pair_score[3] = 0

\* lexicon haus -> house, source {house}, target {haus}: the score is 1
C8_Witness ==
    /\ pair_score # <<>>
    /\ "haus" \in DOMAIN dictionary /\ dictionary["haus"] = {"house"}
    /\ sdocs[pair_score[1] + 1] = {"house"}
    /\ tdocs[pair_score[2] + 1] = {"haus"}
    /\ pair_score[3] = 1

\* C9: after _extract, hence whenever a pair is scored, every word of both
\* corpora's word sets translates to itself; the extension has only added
\* self-translations, every translation read from the file is still there.
C9_SelfTranslations ==
    dpc = "extracted" =>
        LET sw == UNION Range(sdocs)
            tw == UNION Range(tdocs)
        IN /\ \A w \in sw \cap tw : w \in DOMAIN dictionary /\ w \in dictionary[w]
           /\ \A w \in DOMAIN loaded : w \in DOMAIN dictionary /\ loaded[w] \subseteq dictionary[w]
           /\ \A w \in DOMAIN dictionary :
                dictionary[w] \subseteq
                    (IF w \in DOMAIN loaded THEN loaded[w] ELSE {}) \cup {w}

\* a word of both corpora that the file translates, but not to itself
C9_Witness ==
    /\ dpc = "extracted"
    /\ \E w \in UNION Range(sdocs) \cap UNION Range(tdocs) :
          /\ w \in DOMAIN loaded /\ w \notin loaded[w]
          /\ dictionary[w] = loaded[w] \cup {w}

\* the dictionary of a file: each word of column to, lower-cased, with the
\* words of column from on its two-field lines
DictOfColumns(lines, from, to) ==
    LET valid == {k \in 1..Len(lines) : Len(lines[k]) = 2}
    IN [w \in {Lower(lines[k][to]) : k \in valid} |->
          {Lower(lines[k][from]) : k \in {v \in valid : Lower(lines[v][to]) = w}}]

\* C10: the header codes are compared with the requested pair without regard
\* to case; in order the entries are loaded as written, in reversed order
\* with the columns swapped, and any other header is fatal with no entry loaded.
C10_HeaderCheck ==
    dpc \in {"loaded", "error"} =>
        LET h1 == Lower(dictfile.header[1])
            h2 == Lower(dictfile.header[2])
            r1 == Lower(lang1)
            r2 == Lower(lang2)
        IN IF h1 = r1 /\ h2 = r2
           THEN dpc = "loaded" /\ dictionary = DictOfColumns(dictfile.lines, 1, 2)
           ELSE IF h1 = r2 /\ h2 = r1
           THEN dpc = "loaded" /\ dictionary = DictOfColumns(dictfile.lines, 2, 1)
           ELSE dpc = "error" /\ dictionary = EmptyFun

---------------------------------------------------------------------------
(* NERDistance *)

\* pages appended to self.s_entities over all _extract calls
MaxNERDocs == 2
\* lines of one page
MaxNERLines == 2

\* a line of page.text.split("\n") after source_tokenizer.process: its tokens
NERLines == {<<"Bonn">>, <<"Anna", "Bonn">>}

NERPages == SeqsUpTo(NERLines, MaxNERLines)

NERCorpora == SeqsUpTo(NERPages, MaxNERDocs)

\* NamedEntityTag values; "O" is no entity
Tags == {"O", "LOC"}

\* what self.server.parse(line) and json.loads can do with a line: raise
\* KeyboardInterrupt, raise anything else, give an empty parse, give a parse
\* without "sentences", or give the words of the line with a tag each
Answers(line) ==
    {[kind |-> k, words |-> <<>>] : k \in {"interrupt", "fail", "empty", "nosent"}}
    \cup {[kind |-> "ok", words |-> [k \in 1..Len(line) |-> <<line[k], tagging[k]>>]] :
             tagging \in [1..Len(line) -> Tags]}

\* entities[ne_type].append(w) on a defaultdict(list)
ListAppend(ent, ne_type, w) ==
    [t \in DOMAIN ent \cup {ne_type} |->
        IF t = ne_type THEN (IF t \in DOMAIN ent THEN ent[t] ELSE <<>>) \o <<w>>
        ELSE ent[t]]

\* lines 455-460: the tagged words of one parse, from word k on
RECURSIVE add_entities(_, _, _)
add_entities(ent, words, k) ==
    IF k > Len(words) THEN ent
    ELSE LET w == words[k][1]
             ne_type == words[k][2]
         IN IF ne_type # "O"
            THEN add_entities(ListAppend(ent, ne_type, w), words, k + 1)
            ELSE add_entities(ent, words, k + 1)

\* mutant: a failed call loses what was gathered before it
after_parse_failure_empty(ent) == EmptyFun

\* line 445: return entities
after_parse_failure(ent) == ent

\* lines 471-473
valid_words(ent) == UNION {Range(ent[t]) : t \in DOMAIN ent}

\* "\n".join(text).split()
RECURSIVE JoinSplit(_)
JoinSplit(text) == IF text = <<>> THEN <<>> ELSE Head(text) \o JoinSplit(Tail(text))

\* lines 475-476
filtered_source(text, valid) == SelectSeq(JoinSplit(text), LAMBDA w : w \in valid)

\* line 478: the tuple appended to self.s_entities
EntityEntry(ent, text) ==
    [entities |-> ent, valid_words |-> valid_words(ent),
     filtered_source |-> filtered_source(text, valid_words(ent))]

InitNER ==
    /\ npc = "new" /\ n_corpus = <<>> /\ n_doc = 0 /\ n_line = 0
    /\ entities = EmptyFun /\ s_entities = <<>> /\ n_base = 0 /\ n_log = <<>>
    /\ ScoreIdle /\ ScoreIdleGC /\ ScoreIdleDict /\ ScoreIdleVec /\ ScoreIdleBlocks
    /\ ScoreIdleCand

\* NERDistance.__init__, lines 421-432
NERConstruct ==
    /\ npc = "new"
    /\ npc' = "ready"
    /\ s_entities' = <<>>
    /\ UNCHANGED <<n_corpus, n_doc, n_line, entities, n_base, n_log>>
    /\ UNCHANGED <<scoreVars, gcVars, dictVars, vecVars, blockVars, candVars>>

\* _extract(source_corpus, target_corpus) up to the first service call
NERExtract(corpus) ==
    /\ npc \in {"ready", "done"}
    /\ Len(s_entities) + Len(corpus) <= MaxNERDocs
    /\ n_corpus' = corpus
    /\ n_base' = Len(s_entities)
    /\ n_doc' = 0
    /\ n_line' = 0
    /\ entities' = EmptyFun
    /\ n_log' = IF corpus = <<>> THEN <<>> ELSE << <<>> >>
    /\ npc' = IF corpus = <<>> THEN "done" ELSE "lines"
    /\ UNCHANGED s_entities
    /\ UNCHANGED <<scoreVars, gcVars, dictVars, vecVars, blockVars, candVars>>

\* lines 469-478 once _extract_entities has returned ent for page n_doc, and
\* the step of the loop of _extract to the next page
NERPageDone(ent, answers) ==
    /\ s_entities' = Append(s_entities, EntityEntry(ent, n_corpus[n_doc + 1]))
    /\ IF n_doc + 1 < Len(n_corpus)
       THEN /\ n_doc' = n_doc + 1
            /\ n_log' = Append(answers, <<>>)
            /\ npc' = "lines"
       ELSE /\ n_doc' = n_doc
            /\ n_log' = answers
            /\ npc' = "done"
    /\ n_line' = 0
    /\ entities' = EmptyFun

\* lines 437-460: one line of the text of page n_doc
NERLine(ans) ==
    /\ npc = "lines"
    /\ n_line < Len(n_corpus[n_doc + 1])
    /\ LET answers == [n_log EXCEPT ![Len(n_log)] = Append(@, ans)]
       IN CASE ans.kind = "interrupt" ->
                 /\ npc' = "interrupted"
                 /\ n_log' = answers
                 /\ UNCHANGED <<n_doc, n_line, entities, s_entities>>
            [] ans.kind = "fail" ->
                 NERPageDone(after_parse_failure(entities), answers)
            [] OTHER ->
                 /\ entities' = IF ans.kind = "ok"
                                THEN add_entities(entities, ans.words, 1)
                                ELSE entities
                 /\ n_line' = n_line + 1
                 /\ n_log' = answers
                 /\ UNCHANGED <<npc, n_doc, s_entities>>
    /\ UNCHANGED <<n_corpus, n_base>>
    /\ UNCHANGED <<scoreVars, gcVars, dictVars, vecVars, blockVars, candVars>>

\* line 461: the loop over the lines is over
NERTextEnd ==
    /\ npc = "lines"
    /\ n_line = Len(n_corpus[n_doc + 1])
    /\ NERPageDone(entities, n_log)
    /\ UNCHANGED <<n_corpus, n_base>>
    /\ UNCHANGED <<scoreVars, gcVars, dictVars, vecVars, blockVars, candVars>>

NextNER ==
    \/ NERConstruct
    \/ \E corpus \in NERCorpora : NERExtract(corpus)
    \/ \E line \in NERLines : \E ans \in Answers(line) :
          /\ npc = "lines"
          /\ n_line < Len(n_corpus[n_doc + 1])
          /\ line = n_corpus[n_doc + 1][n_line + 1]
          /\ NERLine(ans)
    \/ NERTextEnd

SpecNER == InitNER /\ [][NextNER]_vars

---------------------------------------------------------------------------
(* Properties of NERDistance, checked under SpecNER *)

\* the words the answer ans tags with t, in order
TaggedWith(ans, t) ==
    LET sel == SelectSeq(ans.words, LAMBDA p : p[2] = t)
    IN [k \in 1..Len(sel) |-> sel[k][1]]

\* the words the first n answers tag with t, in order
RECURSIVE GatheredOf(_, _, _)
GatheredOf(answers, n, t) ==
    IF n = 0 THEN <<>> ELSE GatheredOf(answers, n - 1, t) \o TaggedWith(answers[n], t)

\* the entities of the first n answers, by tag
Gathered(answers, n) ==
    [t \in {u \in Tags \ {"O"} : GatheredOf(answers, n, u) # <<>>} |-> GatheredOf(answers, n, t)]

\* the pages of the running call whose entry has been appended
PagesDone == IF npc = "done" THEN Len(n_log) ELSE Len(n_log) - 1

\* C11: when the service call fails on line k of a source page, the entities
\* of that page are exactly those gathered from the lines before k and no
\* later line is sent; nothing but an interrupt leaves _extract early, and
\* when _extract returns it has appended one entry per source page, in
\* corpus order.
C11_PartialFailure ==
    /\ npc \in {"lines", "done"} =>
          \A d \in 1..PagesDone :
             LET answers == n_log[d]
                 page == n_corpus[d]
                 entry == s_entities[n_base + d]
                 fails == {k \in 1..Len(answers) : answers[k].kind = "fail"}
             IN /\ fails # {} =>
                      /\ fails = {Len(answers)}
                      /\ entry.entities = Gathered(answers, Len(answers) - 1)
                /\ fails = {} =>
                      /\ Len(answers) = Len(page)
                      /\ entry.entities = Gathered(answers, Len(answers))
                /\ Len(answers) <= Len(page)
                /\ entry.valid_words = UNION {Range(entry.entities[t]) : t \in DOMAIN entry.entities}
                /\ entry.filtered_source =
                      SelectSeq(JoinSplit(page), LAMBDA w : w \in entry.valid_words)
    /\ npc = "done" =>
          /\ Len(n_log) = Len(n_corpus)
          /\ Len(s_entities) = n_base + Len(n_corpus)
    /\ npc = "interrupted" =>
          n_log[Len(n_log)][Len(n_log[Len(n_log)])].kind = "interrupt"

\* the call failed on line 2 of the first of two pages, after line 1 gave an
\* entity; the first entry holds that entity and the second page has its entry
C11_Witness ==
    /\ npc = "done"
    /\ Len(n_corpus) = 2
    /\ Len(n_corpus[1]) = 2
    /\ Len(n_log[1]) = 2
    /\ n_log[1][1].kind = "ok"
    /\ n_log[1][2].kind = "fail"
    /\ s_entities[n_base + 1].entities = [t \in {"LOC"} |-> <<"Bonn">>]
    /\ s_entities[n_base + 2].valid_words # {}

---------------------------------------------------------------------------
(* DocumentVectorExtractor *)

\* term lines of the frequency table
MaxIdfLines == 2
\* pages of the corpus handed to extract
MaxVecDocs == 2

\* the first line of the frequency table: the number of documents
TableDocs == 4

VecTerms == {"a", "b"}

\* a term line split at the tab: (term, docs_with_term)
IdfLines == VecTerms \X {1, 2}

\* the frequency table: its first line and its term lines
IdfFiles == [ndocs : {TableDocs}, lines : SeqsUpTo(IdfLines, MaxIdfLines)]

\* the min_count argument of the constructor
MinCounts == {1, 2}

\* the attribute self.min_term_count does not exist yet
Unset == "unset"

\* the n-grams of a page: "c" is in no table
VecPages == SeqsUpTo(VecTerms \cup {"c"}, 2)

VecCorpora == SeqsUpTo(VecPages, MaxVecDocs)

NoTables == [error |-> "", term2idf |-> EmptyFun, term2idx |-> EmptyFun, ignored_terms |-> {}]

\* dict[key] = value
DictSet(dict, key, value) ==
    [k \in DOMAIN dict \cup {key} |-> IF k = key THEN value ELSE dict[k]]

\* lines 96-102: the term lines from line k on; mtc is self.min_term_count as
\* the comparison of line 98 finds it
RECURSIVE read_idf(_, _, _, _, _)
read_idf(lines, k, nd, mtc, tbl) ==
    IF k > Len(lines) THEN tbl
    ELSE LET term == lines[k][1]
             docs_with_term == lines[k][2]
         IN IF mtc = Unset
            THEN [tbl EXCEPT !.error = "AttributeError"]
            ELSE IF docs_with_term < mtc
            THEN read_idf(lines, k + 1, nd, mtc,
                          [tbl EXCEPT !.ignored_terms = @ \cup {term}])
            ELSE read_idf(lines, k + 1, nd, mtc,
                          [tbl EXCEPT
                              !.term2idf = DictSet(@, term, log(nd, docs_with_term)),
                              !.term2idx = DictSet(@, term, Cardinality(DOMAIN @))])

InitVec ==
    /\ vpc = "new" /\ idf = [ndocs |-> 0, lines |-> <<>>] /\ min_count = 0
    /\ min_term_count = Unset /\ tables = NoTables /\ v_corpus = <<>>
    /\ ScoreIdle /\ ScoreIdleGC /\ ScoreIdleDict /\ ScoreIdleNER /\ ScoreIdleBlocks
    /\ ScoreIdleCand

\* DocumentVectorExtractor.__init__(n, idf, min_count), line 84:
\* self._read_idf(idf) runs before self.min_term_count is assigned
VecReadIdf(f, mc) ==
    /\ vpc = "new"
    /\ idf' = f
    /\ min_count' = mc
    /\ tables' = read_idf(f.lines, 1, f.ndocs, min_term_count, NoTables)
    /\ vpc' = IF tables'.error # "" THEN tables'.error ELSE "read"
    /\ UNCHANGED <<min_term_count, v_corpus>>
    /\ UNCHANGED <<scoreVars, gcVars, dictVars, nerVars, blockVars, candVars>>

\* the rest of __init__, lines 85-86
VecInitRest ==
    /\ vpc = "read"
    /\ min_term_count' = min_count
    /\ vpc' = "ready"
    /\ UNCHANGED <<idf, min_count, tables, v_corpus>>
    /\ UNCHANGED <<scoreVars, gcVars, dictVars, nerVars, blockVars, candVars>>

\* extract(corpus), line 107: np.zeros(len(corpus), len(self.term2idx)) passes
\* the number of columns as the dtype argument, which numpy rejects
VecExtract(corpus) ==
    /\ vpc = "ready"
    /\ v_corpus' = corpus
    /\ vpc' = "TypeError"
    /\ UNCHANGED <<idf, min_count, min_term_count, tables>>
    /\ UNCHANGED <<scoreVars, gcVars, dictVars, nerVars, blockVars, candVars>>

NextVec ==
    \/ \E f \in IdfFiles, mc \in MinCounts : VecReadIdf(f, mc)
    \/ VecInitRest
    \/ \E corpus \in VecCorpora : VecExtract(corpus)

SpecVec == InitVec /\ [][NextVec]_vars

---------------------------------------------------------------------------
(* Properties of DocumentVectorExtractor, checked under SpecVec *)

\* the document count of term in the table, 0 when the table lacks it
DocCount(f, term) ==
    LET at == {k \in 1..Len(f.lines) : f.lines[k][1] = term}
    IN IF at = {} THEN 0 ELSE f.lines[CHOOSE k \in at : \A l \in at : l <= k][2]

\* C12: constructing the extractor with a min_count and extracting a corpus
\* end without a fatal error; a term whose document count is below min_count
\* has no column and no weight, every other term of the table has the weight
\* ln(total_docs / doc_count).
C12_MinCountFilter ==
    /\ vpc \notin {"AttributeError", "TypeError", "KeyError"}
    /\ vpc \in {"read", "ready"} =>
          \A term \in VecTerms :
             LET c == DocCount(idf, term)
             IN IF c = 0 \/ c < min_count
                THEN term \notin DOMAIN tables.term2idx /\ term \notin DOMAIN tables.term2idf
                ELSE /\ term \in DOMAIN tables.term2idx
                     /\ tables.term2idf[term] = log(idf.ndocs, c)

---------------------------------------------------------------------------
(* GaleChurchAlignmentDistance, and the scorers that keep what they extract *)

\* pages appended to sblocks and tblocks together, over all _extract calls
MaxBlockDocs == 2

\* len(sentence)
StrLen(sentence) ==
    CASE sentence = "Hi." -> 3
      [] sentence = "Hello." -> 6
      [] OTHER -> 0

\* the text of a page: the sentences the tokenizer finds in it
BlockPages == {<<"Hi.">>, <<"Hello.", "Hi.">>}

\* a corpus of n pages, in the order of iteritems()
BlockCorpora(n) == [1..n -> BlockPages]

\* GaleChurchAlignmentDistance._blocks_from_text(text)
blocks_from_text(text) == [k \in 1..Len(text) |-> StrLen(text[k])]

\* mutant: the list starts afresh with every call
AppendAll_fresh(list, items) == items

\* list.append(item) for every item, in order
AppendAll(list, items) == list \o items

InitAccum ==
    /\ DictNew
    /\ bpc = "new" /\ sblocks = <<>> /\ tblocks = <<>> /\ b_seen = NoCall
    /\ ScoreIdle /\ ScoreIdleGC /\ ScoreIdleNER /\ ScoreIdleVec /\ ScoreIdleCand

\* GaleChurchAlignmentDistance.__init__, lines 371-374
BlockConstruct ==
    /\ bpc = "new"
    /\ bpc' = "ready"
    /\ sblocks' = <<>>
    /\ tblocks' = <<>>
    /\ UNCHANGED b_seen
    /\ UNCHANGED <<scoreVars, gcVars, dictVars, nerVars, vecVars, candVars>>

\* GaleChurchAlignmentDistance._extract(source_corpus, target_corpus)
BlockExtract(sc, tc) ==
    /\ bpc = "ready"
    /\ Len(sblocks) + Len(tblocks) + Len(sc) + Len(tc) <= MaxBlockDocs
    /\ sblocks' = AppendAll(sblocks, [k \in 1..Len(sc) |-> blocks_from_text(sc[k])])
    /\ tblocks' = AppendAll(tblocks, [k \in 1..Len(tc) |-> blocks_from_text(tc[k])])
    /\ b_seen' = [sdocs |-> sblocks, tdocs |-> tblocks, sc |-> sc, tc |-> tc]
    /\ UNCHANGED bpc
    /\ UNCHANGED <<scoreVars, gcVars, dictVars, nerVars, vecVars, candVars>>

\* GaleChurchAlignmentDistance._score_pair, line 391: self.gc is assigned
\* nowhere, neither by this class nor by DistanceScorer
BlockScorePair(si, ti) ==
    /\ bpc = "ready"
    /\ bpc' = "AttributeError"
    /\ UNCHANGED <<sblocks, tblocks, b_seen>>
    /\ UNCHANGED <<scoreVars, gcVars, dictVars, nerVars, vecVars, candVars>>

\* the lexicon of the dictionary scorer under SpecAccum: Haus -> house
AccumFile == [header |-> <<"de", "en">>, lines |-> << <<"house", "Haus">> >>]

\* the pages handed to the dictionary scorer under SpecAccum
AccumPages == {{"Haus"}, {"house"}}

AccumCorpora(n) == [1..n -> AccumPages]

NextAccum ==
    \/ ReadDictionary(AccumFile, "de", "en")
    \/ Constructed
    \/ \E n \in 0..MaxDictDocs : \E m \in 0..(MaxDictDocs - n) :
          \E sc \in AccumCorpora(n), tc \in AccumCorpora(m) : DictExtract(sc, tc)
    \/ \E si \in 0..(MaxDictDocs - 1), ti \in 0..(MaxDictDocs - 1) : ScorePair(si, ti)
    \/ BlockConstruct
    \/ \E n \in 0..MaxBlockDocs : \E m \in 0..(MaxBlockDocs - n) :
          \E sc \in BlockCorpora(n), tc \in BlockCorpora(m) : BlockExtract(sc, tc)
    \/ \E si \in 0..(MaxBlockDocs - 1), ti \in 0..(MaxBlockDocs - 1) : BlockScorePair(si, ti)

SpecAccum == InitAccum /\ [][NextAccum]_vars

---------------------------------------------------------------------------
(* Properties of the accumulating scorers, checked under SpecAccum *)

\* what the last _extract call found (before) and left (after) in one list,
\* given the entries of the pages it was handed
Accumulated(before, after, entries) ==
    /\ Len(after) = Len(before) + Len(entries)
    /\ \A i \in 1..Len(before) : after[i] = before[i]
    /\ \A k \in 1..Len(entries) : after[Len(before) + k] = entries[k]

\* the document at index i of a list: a document of an earlier call when the
\* earlier calls left more than i entries, else a page of the last call
DocumentAt(before, pages, i) ==
    IF i < Len(before) THEN before[i + 1]
    ELSE words_from_text(pages[i - Len(before) + 1])

\* C15: _extract of GaleChurchAlignmentDistance and of DictionaryScorer append
\* to lists that are never reset: after a call the lists hold the entries of
\* all earlier calls, unchanged and in front, followed by one entry per page
\* of this call; _score_pair(i, ., j, .) of the dictionary scorer scores the
\* entries i and j of the lists, which is a document of an earlier call
\* wherever the earlier calls left more than i, or j, entries.
C15_Accumulation ==
    /\ bpc \in {"ready", "AttributeError"} =>
          /\ Accumulated(b_seen.sdocs, sblocks,
                         [k \in 1..Len(b_seen.sc) |-> blocks_from_text(b_seen.sc[k])])
          /\ Accumulated(b_seen.tdocs, tblocks,
                         [k \in 1..Len(b_seen.tc) |-> blocks_from_text(b_seen.tc[k])])
    /\ dpc = "extracted" =>
          /\ Accumulated(d_seen.sdocs, sdocs,
                         [k \in 1..Len(d_seen.sc) |-> words_from_text(d_seen.sc[k])])
          /\ Accumulated(d_seen.tdocs, tdocs,
                         [k \in 1..Len(d_seen.tc) |-> words_from_text(d_seen.tc[k])])
          /\ pair_score # <<>> =>
                pair_score[3] =
                    bitextor_distance(dictionary,
                                      DocumentAt(d_seen.sdocs, d_seen.sc, pair_score[1]),
                                      DocumentAt(d_seen.tdocs, d_seen.tc, pair_score[2]))

\* both scorers have extracted twice, with a source page in either call;
\* _score_pair(0, ., 0, .) of the dictionary scorer takes the source document
\* of the first call, and its score is not the score of page 0 of this call's
\* source corpus against page 0 of this call's target corpus
C15_Witness ==
    /\ bpc = "ready"
    /\ Len(b_seen.sdocs) = 1 /\ Len(b_seen.sc) = 1 /\ Len(sblocks) = 2
    /\ sblocks[1] # blocks_from_text(b_seen.sc[1])
    /\ dpc = "extracted"
    /\ Len(d_seen.sdocs) = 1 /\ Len(d_seen.sc) = 1
    /\ Len(d_seen.tdocs) = 0 /\ Len(d_seen.tc) = 1
    /\ pair_score # <<>>
    /\ pair_score[1] = 0 /\ pair_score[2] = 0
    /\ pair_score[3] # bitextor_distance(dictionary, words_from_text(d_seen.sc[1]),
                                         words_from_text(d_seen.tc[1]))

---------------------------------------------------------------------------
(* baseline/candidates2corpus.py *)

\* lines read from stdin
MaxInput == 5

Urls == {"u1", "u2"}

\* what downloader.download and TextSanitizer.to_unicode give for a line
Htmls == {"", "<p>x</p>"}

\* html2text(html.encode('utf-8'), sanitize=True)
html2text(html) == IF html = "" THEN "" ELSE "x"

\* TextProcessor.process(text) of the source or of the target processor
process(processor, text) == [by |-> processor, text |-> text]

\* base64.b64encode(s.encode('utf-8'))
b64encode(s) == <<"b64", s>>

\* lines 67-71: the processor is chosen by the length of the buffer
processor_for(cands) == IF Len(cands) = 0 THEN "source" ELSE "target"

\* mutant: only the html of the first page is looked at
process_candidates_first(cands, out) ==
    IF cands[1][3] = "" THEN out
    ELSE Append(out, <<cands[1][1], cands[2][1],
                       b64encode(cands[1][2]), b64encode(cands[2][2]),
                       b64encode(cands[1][3]), b64encode(cands[2][3])>>)

\* process_candidates(candidates, outfile): outfile after the call
process_candidates(cands, out) ==
    IF cands[1][3] = "" \/ cands[2][3] = "" THEN out
    ELSE LET src_url == cands[1][1]
             src_text == cands[1][2]
             src_html == cands[1][3]
             tgt_url == cands[2][1]
             tgt_text == cands[2][2]
             tgt_html == cands[2][3]
         IN Append(out, <<src_url, tgt_url,
                          b64encode(src_text), b64encode(tgt_text),
                          b64encode(src_html), b64encode(tgt_html)>>)

InitCand ==
    /\ cpc = "read" /\ linenr = 0 /\ candidates = <<>> /\ outfile = <<>>
    /\ c_input = <<>> /\ c_roles = <<>>
    /\ ScoreIdle /\ ScoreIdleGC /\ ScoreIdleDict /\ ScoreIdleNER /\ ScoreIdleVec
    /\ ScoreIdleBlocks

\* lines 49-72: one well-formed line of stdin, up to candidates.append
ReadLine(url, html) ==
    /\ cpc = "read"
    /\ linenr < MaxInput
    /\ LET role == processor_for(candidates)
           text == process(role, html2text(html))
       IN /\ candidates' = Append(candidates, <<url, text, html>>)
          /\ c_roles' = Append(c_roles, role)
    /\ c_input' = Append(c_input, <<url, html>>)
    /\ linenr' = linenr + 1
    /\ cpc' = "appended"
    /\ UNCHANGED outfile
    /\ UNCHANGED <<scoreVars, gcVars, dictVars, nerVars, vecVars, blockVars>>

\* lines 74-76: the end of the loop body
PairCheck ==
    /\ cpc = "appended"
    /\ IF Len(candidates) = 2
       THEN /\ outfile' = process_candidates(candidates, outfile)
            /\ candidates' = <<>>
       ELSE UNCHANGED <<outfile, candidates>>
    /\ cpc' = "read"
    /\ UNCHANGED <<linenr, c_input, c_roles>>
    /\ UNCHANGED <<scoreVars, gcVars, dictVars, nerVars, vecVars, blockVars>>

\* lines 55-64 on a line that cannot be split or parsed, or whose download
\* fails: the exception ends the program
BadLine ==
    /\ cpc = "read"
    /\ linenr < MaxInput
    /\ cpc' = "crashed"
    /\ UNCHANGED <<linenr, candidates, outfile, c_input, c_roles>>
    /\ UNCHANGED <<scoreVars, gcVars, dictVars, nerVars, vecVars, blockVars>>

\* line 49: stdin is at its end
EndOfInput ==
    /\ cpc = "read"
    /\ cpc' = "eof"
    /\ UNCHANGED <<linenr, candidates, outfile, c_input, c_roles>>
    /\ UNCHANGED <<scoreVars, gcVars, dictVars, nerVars, vecVars, blockVars>>

NextCand ==
    \/ \E url \in Urls, html \in Htmls : ReadLine(url, html)
    \/ PairCheck
    \/ BadLine
    \/ EndOfInput

SpecCand == InitCand /\ [][NextCand]_vars

---------------------------------------------------------------------------
(* Properties of candidates2corpus, checked under SpecCand *)

\* the records of the first n pairs of the input lines: pair k is made of
\* lines 2k and 2k + 1 (counted from 0)
RECURSIVE RecordsOf(_, _)
RecordsOf(lines, n) ==
    IF n = 0 THEN <<>>
    ELSE LET src == lines[2 * n - 1]
             tgt == lines[2 * n]
         IN IF src[2] = "" \/ tgt[2] = "" THEN RecordsOf(lines, n - 1)
            ELSE Append(RecordsOf(lines, n - 1),
                        <<src[1], tgt[1],
                          <<"b64", [by |-> "source", text |-> html2text(src[2])]>>,
                          <<"b64", [by |-> "target", text |-> html2text(tgt[2])]>>,
                          <<"b64", src[2]>>, <<"b64", tgt[2]>> >>)

\* the pairs whose second line has been through the end of the loop body
PairsDone == IF cpc = "appended" THEN (linenr - 1) \div 2 ELSE linenr \div 2

\* C16: the buffer never holds more than two entries and is empty after
\* every second line; line 2k goes through the source text processor and
\* line 2k + 1 through the target text processor, whatever was skipped
\* before; the output holds, in order, one record (source first) for every
\* pair read so far of which neither page has an empty html, and nothing else.
C16_Pairing ==
    /\ Len(candidates) <= 2
    /\ cpc = "appended" => Len(candidates) = ((linenr - 1) % 2) + 1
    /\ cpc # "appended" => Len(candidates) = linenr % 2
    /\ Len(c_roles) = linenr
    /\ \A n \in 1..linenr : c_roles[n] = (IF (n - 1) % 2 = 0 THEN "source" ELSE "target")
    /\ \A n \in 1..Len(candidates) :
          LET line == c_input[linenr - Len(candidates) + n]
          IN candidates[n] = <<line[1], [by |-> c_roles[linenr - Len(candidates) + n],
                                         text |-> html2text(line[2])], line[2]>>
    /\ outfile = RecordsOf(c_input, PairsDone)

\* the first pair was skipped for an empty html, the second pair was written
C16_Witness ==
    /\ cpc = "read"
    /\ linenr = 4
    /\ c_input[1][2] = ""
    /\ c_input[2][2] # ""
    /\ Len(outfile) = 1
    /\ outfile[1][1] = c_input[3][1]
    /\ outfile[1][2] = c_input[4][1]
    /\ outfile[1][3][2].by = "source"
    /\ outfile[1][4][2].by = "target"

====
